---- MODULE Spec2Model ----
(***************************************************************************)
(* A model of pyn (Thinkmill/pyn): the manifest data model, the discovery  *)
(* of a project and its workspace members on the filesystem, the project   *)
(* queries, and the control flow of the command line's main().             *)
(*                                                                         *)
(* A path is the sequence of its components below the filesystem root:     *)
(* <<>> is "/", <<"repo","foo">> is "/repo/foo".                           *)
(***************************************************************************)
EXTENDS Integers, Sequences, FiniteSets, TLC

VARIABLES
    \* ---- the filesystem, as far as the program has read it
    listing,          \* directory -> its entries in read_dir order (<<>> until read)
    examined,         \* the directories Project::find has called read_dir on
    pkgjson,          \* directory -> what its package.json holds
    wsconf,           \* the workspace configuration read at the project root
    \* ---- Package::find / Project::find in progress
    call,             \* the operation under way and its argument
    pc,               \* where the operation is
    path,             \* Project::find's `path`
    pkg_json_path,    \* Package::find's argument `path` of the current invocation
    depth,            \* number of nested Package::find invocations
    package_manager,  \* Project::find's `package_manager`
    result,           \* what the operation returned
    \* ---- one manifest document, from its source text to the text written back
    source,           \* the document: its top-level entries in file order
    pkg_json,         \* the PackageJson parsed from it
    written,          \* the entries PackageJson::write serializes
    mpc,              \* "source", "malformed", "parsed" or "written"
    edits,            \* number of mutations since the parse
    \* ---- a discovered Project and the queries made of it
    project,          \* the Project
    answer,           \* the last query and what it returned
    \* ---- one run of the command line
    cwd,              \* env::current_dir()
    opt,              \* the Subcommand
    disk,             \* manifest file -> the document it holds
    workspace,        \* the workspace configuration at the root
    mainpc,           \* where main is
    exit_code,        \* the exit code of the process, once mainpc = "exited"
    child,            \* the child process run and its exit status
    failure,          \* what ended the run early, "none" otherwise
    stdout,           \* the lines printed about dependencies
    discovered,       \* the Project as Project::find returned it
    \* ---- the registry lookups of one add
    packages,         \* get_latest_versions' argument
    fetches,          \* the futures pushed to the stream, one per name
    collected,        \* the Vec try_collect has built so far
    fpc,              \* where get_latest_versions and its caller are
    fpkg,             \* the manifest add inserts into
    \* ---- one package name
    input,            \* the string given to PackageName::new
    nresult,          \* what PackageName::new returned
    nanswer,          \* what scoped() or is_scoped() returned
    npc               \* "given", "new" or "asked"

findVars == <<listing, examined, pkgjson, wsconf, call, pc, path, pkg_json_path,
              depth, package_manager, result>>

manifestVars == <<source, pkg_json, written, mpc, edits>>

projectVars == <<project, answer>>

mainVars == <<cwd, opt, disk, workspace, mainpc, exit_code, child, failure, stdout,
              discovered>>

fetchVars == <<packages, fetches, collected, fpc, fpkg>>

nameVars == <<input, nresult, nanswer, npc>>

vars == <<findVars, manifestVars, projectVars, mainVars, fetchVars, nameVars>>

\* what the steps of one part of the program leave alone
FindFrame == UNCHANGED <<manifestVars, projectVars, mainVars, fetchVars, nameVars>>
ManifestFrame == UNCHANGED <<findVars, projectVars, mainVars, fetchVars, nameVars>>
QueryFrame == UNCHANGED <<findVars, manifestVars, mainVars, fetchVars, nameVars>>
MainFrame == UNCHANGED <<findVars, manifestVars, answer, fetchVars, nameVars>>
FetchFrame == UNCHANGED <<findVars, manifestVars, projectVars, mainVars, nameVars>>
NameFrame == UNCHANGED <<findVars, manifestVars, projectVars, mainVars, fetchVars>>

----------------------------------------------------------------------------
(* Bounds of the model.                                                    *)

\* The directory tree the program runs in.
Dirs ==
    { <<>>, <<"repo">>, <<"repo", "foo">>, <<"repo", "bar">> }

\* Names a directory entry can have.
Files == {"yarn.lock", "pnpm-lock.yaml", "package-lock.json", "package.json"}

\* Most entries a directory listing holds.
MaxEntries == 2

\* Nested invocations the stack holds before the process is aborted.
MaxStack == 4

\* Most workspace glob patterns in a configuration.
MaxGlobs == 2

\* Package names found in manifests.
PkgNames == {"a", "b"}

\* Workspace glob patterns, as the sequence of their segments.
Globs == { <<"*">>, <<"**">>, <<"repo", "*">> }

\* Most top-level entries of a manifest document.
MaxKeys == 3

\* Most mutations of a manifest between its parse and its write.
MaxEdits == 2

\* Package and dependency names, in the order of their strings, and specifiers.
SortedNames == <<"a", "b", "lodash", "react">>
DepNames == {"lodash", "react"}
Specifiers == {"^3.0.0", "^4.0.0"}

----------------------------------------------------------------------------
(* Paths: std::path::Path and PathBuf.                                     *)

HasParent(p) == Len(p) > 0

Parent(p) == SubSeq(p, 1, Len(p) - 1)

Push(p, name) == Append(p, name)

\* PathBuf::pop: <<whether it truncated, the path afterwards>>.
Pop(p) == IF HasParent(p) THEN <<TRUE, Parent(p)>> ELSE <<FALSE, p>>

IsPrefix(p, q) == Len(p) <= Len(q) /\ SubSeq(q, 1, Len(p)) = p

\* d and its ancestors
AncestorSet(d) == { p \in Dirs : IsPrefix(p, d) }

\* the directories of the tree at or below d
Subtree(d) == { q \in Dirs : IsPrefix(d, q) }

Range(s) == { s[i] : i \in DOMAIN s }

----------------------------------------------------------------------------
(* The filesystem.                                                         *)

Injective(s) == \A i, j \in DOMAIN s : i # j => s[i] # s[j]

Listings ==
    { s \in UNION { [1..n -> Files] : n \in 0..MaxEntries } : Injective(s) }

Unread == [st |-> "unread", name |-> "-"]
Absent == [st |-> "absent", name |-> "-"]
Malformed == [st |-> "malformed", name |-> "-"]
Valid(n) == [st |-> "valid", name |-> n]

PkgContents == {Absent, Malformed} \cup { Valid(n) : n \in PkgNames }

GlobSets == { g \in SUBSET Globs : Cardinality(g) <= MaxGlobs }

WsUnread == [st |-> "unread", globs |-> {}]
WsConfigs ==
    {[st |-> "none", globs |-> {}], [st |-> "bad", globs |-> {}]}
        \cup { [st |-> "globs", globs |-> g] : g \in GlobSets }

\* What a read of d's package.json can find: what was found before, and else
\* anything that agrees with the listing of d if that was read.
ReadPkgJson(d) ==
    IF pkgjson[d].st # "unread" THEN {pkgjson[d]}
    ELSE { c \in PkgContents :
             d \in examined => ((c.st # "absent") <=> ("package.json" \in Range(listing[d]))) }

\* What read_dir(d) can list: agrees with the package.json of d if that was read.
ReadDir(d) ==
    IF d \in examined THEN {listing[d]}
    ELSE { l \in Listings :
             pkgjson[d].st # "unread" =>
                 ((pkgjson[d].st # "absent") <=> ("package.json" \in Range(l))) }

----------------------------------------------------------------------------
(* Package::find (project.rs).                                             *)

NoResult == [tag |-> "none"]

\* The outcome of reading a package.json that exists: serde_json::from_str
\* either yields the manifest or fails, and `?` returns the failure.
PackageOf(file, content) ==
    IF content.st = "valid"
    THEN [tag |-> "Ok", pkg_json_path |-> file, name |-> content.name]
    ELSE [tag |-> "Err", kind |-> "InvalidData"]

CallPackageFind ==
    /\ FindFrame
    /\ pc = "idle"
    /\ \E start \in Dirs :
         /\ call' = [op |-> "Package::find", start |-> start]
         /\ pkg_json_path' = start
    /\ pc' = "Package::find"
    /\ depth' = 1
    /\ UNCHANGED <<listing, examined, pkgjson, wsconf, path, package_manager, result>>

\* One invocation of Package::find: push "package.json", read the file, and on
\* NotFound pop the last component and call Package::find on what is left.
PackageFind ==
    /\ FindFrame
    /\ pc = "Package::find"
    /\ LET file == Push(pkg_json_path, "package.json")
           dir  == Parent(file)
           popped == Pop(file)
       IN \E content \in ReadPkgJson(dir) :
            /\ pkgjson' = [pkgjson EXCEPT ![dir] = content]
            /\ IF content.st # "absent"
               THEN /\ result' = PackageOf(file, content)
                    /\ pc' = "done"
                    /\ UNCHANGED <<pkg_json_path, depth>>
               ELSE IF popped[1]
               THEN IF depth < MaxStack
                    THEN /\ pkg_json_path' = popped[2]
                         /\ depth' = depth + 1
                         /\ UNCHANGED <<pc, result>>
                    ELSE /\ pc' = "stack overflow"
                         /\ UNCHANGED <<pkg_json_path, depth, result>>
               ELSE /\ result' = [tag |-> "Err", kind |-> "NotFound"]
                    /\ pc' = "done"
                    /\ UNCHANGED <<pkg_json_path, depth>>
    /\ UNCHANGED <<listing, examined, wsconf, call, path, package_manager>>

----------------------------------------------------------------------------
(* Project::find and find_packages (project.rs).                           *)

\* EntryManager without its last arm: package-lock.json is skipped like any
\* other entry.
EntryManagerNoNpm(name) ==
    CASE name = "yarn.lock" -> "Yarn"
      [] name = "pnpm-lock.yaml" -> "PNPM"
      [] OTHER -> "continue"

\* The match on an entry's file name; "continue" for every other entry.
EntryManager(name) ==
    CASE name = "yarn.lock" -> "Yarn"
      [] name = "pnpm-lock.yaml" -> "PNPM"
      [] name = "package-lock.json" -> "NPM"
      [] OTHER -> "continue"

\* The for loop over the entries: the first entry that is not skipped.
RECURSIVE FirstManager(_)
FirstManager(entries) ==
    IF entries = <<>> THEN "continue"
    ELSE IF EntryManager(Head(entries)) # "continue"
         THEN EntryManager(Head(entries))
         ELSE FirstManager(Tail(entries))

CallProjectFind ==
    /\ FindFrame
    /\ pc = "idle"
    /\ \E start \in Dirs :
         /\ call' = [op |-> "Project::find", start |-> start]
         /\ path' = start
    /\ pc' = "Project::find"
    /\ UNCHANGED <<listing, examined, pkgjson, wsconf, pkg_json_path, depth,
                   package_manager, result>>

\* read_dir(path) and the loop over its entries, up to the first lock artifact;
\* without one, Project::find(parent) or CouldNotFindLockfile.
ProjectFindVisit ==
    /\ FindFrame
    /\ pc = "Project::find"
    /\ \E entries \in ReadDir(path) :
         /\ listing' = [listing EXCEPT ![path] = entries]
         /\ examined' = examined \cup {path}
         /\ IF FirstManager(entries) # "continue"
            THEN /\ package_manager' = FirstManager(entries)
                 /\ pc' = "load"
                 /\ UNCHANGED <<path, result>>
            ELSE IF HasParent(path)
            THEN /\ path' = Parent(path)
                 /\ UNCHANGED <<pc, package_manager, result>>
            ELSE /\ result' = [tag |-> "Err", kind |-> "CouldNotFindLockfile"]
                 /\ pc' = "done"
                 /\ UNCHANGED <<path, package_manager>>
    /\ UNCHANGED <<pkgjson, wsconf, call, pkg_json_path, depth>>

\* A glob of the override set ("<glob>/package.json", anchored at the root)
\* against the directory of a package.json, relative to the root.
RECURSIVE GlobMatches(_, _)
GlobMatches(glob, rel) ==
    IF glob = <<>> THEN rel = <<>>
    ELSE IF Head(glob) = "**"
    THEN GlobMatches(Tail(glob), rel) \/ (rel # <<>> /\ GlobMatches(glob, Tail(rel)))
    ELSE /\ rel # <<>>
         /\ Head(glob) = "*" \/ Head(glob) = Head(rel)
         /\ GlobMatches(Tail(glob), Tail(rel))

Rel(root, d) == SubSeq(d, Len(root) + 1, Len(d))

\* find_packages: the directories of the package.json files the walk of `root`
\* yields and the override set whitelists; `fs` is the content of the subtree.
find_packages(root, globs, fs) ==
    { d \in Subtree(root) :
        /\ fs[d].st # "absent"
        /\ \E g \in globs : GlobMatches(g, Rel(root, d)) }

\* What the walk can find below the root: for each directory what was read
\* before, else anything that agrees with its listing.
SubtreeContents(root, rootContent) ==
    { fs \in [Subtree(root) -> PkgContents] :
        /\ fs[root] = rootContent
        /\ \A d \in Subtree(root) \ {root} :
             /\ pkgjson[d].st # "unread" => fs[d] = pkgjson[d]
             /\ d \in examined =>
                  ((fs[d].st # "absent") <=> ("package.json" \in Range(listing[d]))) }

\* The HashMap collected from (name, package) pairs: one directory per name;
\* of two members with one name the later of the walk replaces the earlier.
MemberMaps(members, fs) ==
    { m \in [{ fs[d].name : d \in members } -> members] :
        \A n \in DOMAIN m : fs[m[n]].name = n }

ProjectOk(manager, rootDir, rootName, some, members) ==
    [tag |-> "Ok", manager |-> manager,
     root |-> [pkg_json_path |-> Push(rootDir, "package.json"), name |-> rootName],
     some |-> some, packages |-> members]

\* The body of the loop for the lock artifact found: the root package.json, the
\* workspace globs, the members, and the Project.
ProjectFindLoad ==
    /\ FindFrame
    /\ pc = "load"
    /\ pc' = "done"
    /\ \E pj \in ReadPkgJson(path) :
         IF pj.st = "absent"
         THEN /\ result' = [tag |-> "Err", kind |-> "Io"]
              /\ pkgjson' = [pkgjson EXCEPT ![path] = pj]
              /\ UNCHANGED wsconf
         ELSE \E ws \in WsConfigs :
           /\ wsconf' = ws
           /\ IF ws.st = "bad"
              THEN /\ result' = [tag |-> "Err",
                                 kind |-> IF package_manager = "PNPM"
                                          THEN "SerdeYaml" ELSE "SerdeJson"]
                   /\ pkgjson' = [pkgjson EXCEPT ![path] = pj]
              ELSE IF ws.st = "none"
              THEN /\ result' = IF pj.st = "valid"
                                THEN ProjectOk(package_manager, path, pj.name, FALSE, <<>>)
                                ELSE [tag |-> "Err", kind |-> "SerdeJson"]
                   /\ pkgjson' = [pkgjson EXCEPT ![path] = pj]
              ELSE \E fs \in SubtreeContents(path, pj) :
                LET members == find_packages(path, ws.globs, fs) IN
                /\ pkgjson' = [d \in Dirs |-> IF d \in Subtree(path) THEN fs[d] ELSE pkgjson[d]]
                /\ IF \E d \in members : PackageOf(Push(d, "package.json"), fs[d]).tag # "Ok"
                   THEN result' = [tag |-> "Panic"]
                   ELSE IF pj.st # "valid"
                   THEN result' = [tag |-> "Err", kind |-> "SerdeJson"]
                   ELSE \E m \in MemberMaps(members, fs) :
                          result' = ProjectOk(package_manager, path, pj.name, TRUE, m)
    /\ UNCHANGED <<listing, examined, call, path, pkg_json_path, depth, package_manager>>

FindStart ==
    /\ listing = [d \in Dirs |-> <<>>]
    /\ examined = {}
    /\ pkgjson = [d \in Dirs |-> Unread]
    /\ wsconf = WsUnread
    /\ call = [op |-> "none", start |-> <<>>]
    /\ pc = "idle"
    /\ path = <<>>
    /\ pkg_json_path = <<>>
    /\ depth = 0
    /\ package_manager = "none"
    /\ result = NoResult

FindNext ==
    \/ CallPackageFind
    \/ PackageFind
    \/ CallProjectFind
    \/ ProjectFindVisit
    \/ ProjectFindLoad

----------------------------------------------------------------------------
(* The manifest: PackageJson (package_json.rs).                            *)

\* DEPENDENCY_TYPES
DEPENDENCY_TYPES ==
    <<"dependencies", "devDependencies", "peerDependencies", "optionalDependencies">>

\* A top-level entry of a document: a string value in `str`, an object value as
\* the sequence of its <<key, value>> members in `map`.
Entry(key, str, map) == [key |-> key, str |-> str, map |-> map]

\* PackageName::new, on the names of this model: the one name it rejects.
InvalidName == "Bad Name"
IsPackageName(raw) == raw # InvalidName

\* LinkedHashMap::insert: a key already present is replaced and moved to the back.
LhmInsert(m, e) == SelectSeq(m, LAMBDA x : x.key # e.key) \o <<e>>

\* InsertionOrderMap<String, String> deserialized from an object's members.
RECURSIVE ScriptsFrom(_)
ScriptsFrom(members) ==
    IF members = <<>> THEN <<>>
    ELSE LET last == members[Len(members)]
             init == ScriptsFrom(SubSeq(members, 1, Len(members) - 1))
         IN SelectSeq(init, LAMBDA x : x[1] # last[1]) \o <<last>>

\* KeyOrderedMap<PackageName, String> deserialized from an object's members:
\* a function of the names; a later member replaces an earlier one of its name.
EmptyDeps == [n \in {} |-> ""]

RECURSIVE DepsFrom(_)
DepsFrom(members) ==
    IF members = <<>> THEN EmptyDeps
    ELSE LET last == members[Len(members)]
             init == DepsFrom(SubSeq(members, 1, Len(members) - 1))
         IN [n \in DOMAIN init \cup {last[1]} |-> IF n = last[1] THEN last[2] ELSE init[n]]

\* BTreeMap::insert and BTreeMap::remove
DepsInsert(deps, n, v) == [m \in DOMAIN deps \cup {n} |-> IF m = n THEN v ELSE deps[m]]
DepsRemove(deps, n) == [m \in DOMAIN deps \ {n} |-> deps[m]]

\* The members a KeyOrderedMap serializes: in the order of its keys.
DepsMembers(deps) ==
    LET keys == SelectSeq(SortedNames, LAMBDA n : n \in DOMAIN deps)
    IN [i \in 1..Len(keys) |-> <<keys[i], deps[keys[i]]>>]

StoredElsewhere(key) == [key |-> key, stored |-> TRUE, str |-> "", map |-> <<>>]
Value(e) == [key |-> e.key, stored |-> FALSE, str |-> e.str, map |-> e.map]

NoPackageJson ==
    [name |-> "", dependencies |-> EmptyDeps, dev_dependencies |-> EmptyDeps,
     optional_dependencies |-> EmptyDeps, peer_dependencies |-> EmptyDeps,
     scripts |-> <<>>, storage |-> <<>>]

\* the visitor's locals before the first key
VisitStart == [pkg |-> NoPackageJson, name_some |-> FALSE, err |-> "none"]

\* the dependency map a key of DEPENDENCY_TYPES stands for
DepsOf(pkg, key) ==
    CASE key = "dependencies" -> pkg.dependencies
      [] key = "devDependencies" -> pkg.dev_dependencies
      [] key = "peerDependencies" -> pkg.peer_dependencies
      [] key = "optionalDependencies" -> pkg.optional_dependencies

WithDeps(pkg, key, deps) ==
    CASE key = "dependencies" -> [pkg EXCEPT !.dependencies = deps]
      [] key = "devDependencies" -> [pkg EXCEPT !.dev_dependencies = deps]
      [] key = "peerDependencies" -> [pkg EXCEPT !.peer_dependencies = deps]
      [] key = "optionalDependencies" -> [pkg EXCEPT !.optional_dependencies = deps]

Store(pkg, e) == [pkg EXCEPT !.storage = LhmInsert(@, e)]

\* One turn of visit_map's while loop, for the entry e.
VisitEntry(v, e) ==
    CASE e.key = "name" ->
           IF v.name_some THEN [v EXCEPT !.err = "duplicate field"]
           ELSE IF ~IsPackageName(e.str) THEN [v EXCEPT !.err = "invalid name"]
           ELSE [v EXCEPT !.name_some = TRUE,
                          !.pkg = Store([@ EXCEPT !.name = e.str], StoredElsewhere(e.key))]
      [] e.key = "scripts" ->
           [v EXCEPT !.pkg = Store([@ EXCEPT !.scripts = ScriptsFrom(e.map)],
                                   StoredElsewhere(e.key))]
      [] e.key \in Range(DEPENDENCY_TYPES) ->
           IF \E i \in DOMAIN e.map : ~IsPackageName(e.map[i][1])
           THEN [v EXCEPT !.err = "invalid name"]
           ELSE [v EXCEPT !.pkg = Store(WithDeps(@, e.key, DepsFrom(e.map)),
                                        StoredElsewhere(e.key))]
      [] OTHER -> [v EXCEPT !.pkg = Store(@, Value(e))]

RECURSIVE VisitEntries(_, _)
VisitEntries(v, doc) ==
    IF doc = <<>> \/ v.err # "none" THEN v
    ELSE VisitEntries(VisitEntry(v, Head(doc)), Tail(doc))

\* MarkAbsent with the markers put before the keys of the document.
RECURSIVE MarkAbsentFirst(_, _)
MarkAbsentFirst(pkg, types) ==
    IF types = <<>> THEN pkg
    ELSE MarkAbsentFirst(
            IF \E i \in DOMAIN pkg.storage : pkg.storage[i].key = Head(types)
            THEN pkg
            ELSE [pkg EXCEPT !.storage = <<StoredElsewhere(Head(types))>> \o @],
            Tail(types))

\* The loop after the walk: a marker at the end for each absent dependency key.
RECURSIVE MarkAbsent(_, _)
MarkAbsent(pkg, types) ==
    IF types = <<>> THEN pkg
    ELSE MarkAbsent(
            IF \E i \in DOMAIN pkg.storage : pkg.storage[i].key = Head(types)
            THEN pkg ELSE Store(pkg, StoredElsewhere(Head(types))),
            Tail(types))

\* PackageJsonVisitor::visit_map
visit_map(doc) ==
    LET v == VisitEntries(VisitStart, doc) IN
    IF v.err # "none" THEN [tag |-> "Err", err |-> v.err, pkg |-> NoPackageJson]
    ELSE IF ~v.name_some THEN [tag |-> "Err", err |-> "missing field", pkg |-> NoPackageJson]
    ELSE [tag |-> "Ok", err |-> "none", pkg |-> MarkAbsent(v.pkg, DEPENDENCY_TYPES)]

\* What one position of the storage serializes: an entry or nothing.
SerializeEntry(pkg, s) ==
    IF ~s.stored THEN <<Entry(s.key, s.str, s.map)>>
    ELSE CASE s.key = "name" -> <<Entry(s.key, pkg.name, <<>>)>>
           [] s.key = "scripts" ->
                IF pkg.scripts # <<>> THEN <<Entry(s.key, "", pkg.scripts)>> ELSE <<>>
           [] OTHER ->
                IF DOMAIN DepsOf(pkg, s.key) # {}
                THEN <<Entry(s.key, "", DepsMembers(DepsOf(pkg, s.key)))>>
                ELSE <<>>

\* impl Serialize for PackageJson
RECURSIVE SerializeFrom(_, _)
SerializeFrom(pkg, storage) ==
    IF storage = <<>> THEN <<>>
    ELSE SerializeEntry(pkg, Head(storage)) \o SerializeFrom(pkg, Tail(storage))

serialize(pkg) == SerializeFrom(pkg, pkg.storage)

\* remove_dep that leaves peerDependencies alone
remove_depNotPeer(pkg, n) ==
    [pkg EXCEPT !.dependencies = DepsRemove(@, n),
                !.dev_dependencies = DepsRemove(@, n),
                !.optional_dependencies = DepsRemove(@, n)]

\* PackageJson::remove_dep
remove_dep(pkg, n) ==
    [pkg EXCEPT !.dependencies = DepsRemove(@, n),
                !.dev_dependencies = DepsRemove(@, n),
                !.optional_dependencies = DepsRemove(@, n),
                !.peer_dependencies = DepsRemove(@, n)]

\* add_dep (main.rs)
add_dep(pkg, dep, version, dev) ==
    IF dev THEN [pkg EXCEPT !.dev_dependencies = DepsInsert(@, dep, version)]
    ELSE [pkg EXCEPT !.dependencies = DepsInsert(@, dep, version)]

\* The entries a document is made of.
ObjectValues == { <<>>, << <<"react", "^3.0.0">>, <<"lodash", "^4.0.0">> >> }

Entries ==
    { Entry("name", n, <<>>) : n \in {"a", InvalidName} }
      \cup { Entry("scripts", "", m) : m \in {<<>>, << <<"build", "tsc">> >>} }
      \cup { Entry(k, "", m) : k \in Range(DEPENDENCY_TYPES), m \in ObjectValues }
      \cup { Entry("version", "1.0.0", <<>>) }

Documents == UNION { [1..n -> Entries] : n \in 0..MaxKeys }

ManifestStart ==
    /\ source \in Documents
    /\ pkg_json = NoPackageJson
    /\ written = <<>>
    /\ mpc = "source"
    /\ edits = 0

ManifestIdle ==
    /\ source = <<>>
    /\ pkg_json = NoPackageJson
    /\ written = <<>>
    /\ mpc = "idle"
    /\ edits = 0

\* FromStr for PackageJson
Parse ==
    /\ ManifestFrame
    /\ mpc = "source"
    /\ LET r == visit_map(source) IN
         /\ pkg_json' = r.pkg
         /\ mpc' = IF r.tag = "Ok" THEN "parsed" ELSE "malformed"
    /\ UNCHANGED <<source, written, edits>>

RemoveDep ==
    /\ ManifestFrame
    /\ mpc = "parsed"
    /\ edits < MaxEdits
    /\ \E n \in DepNames : pkg_json' = remove_dep(pkg_json, n)
    /\ edits' = edits + 1
    /\ UNCHANGED <<source, written, mpc>>

AddDep ==
    /\ ManifestFrame
    /\ mpc = "parsed"
    /\ edits < MaxEdits
    /\ \E n \in DepNames, v \in Specifiers, dev \in BOOLEAN :
         pkg_json' = add_dep(pkg_json, n, v, dev)
    /\ edits' = edits + 1
    /\ UNCHANGED <<source, written, mpc>>

\* PackageJson::write
Write ==
    /\ ManifestFrame
    /\ mpc = "parsed"
    /\ written' = serialize(pkg_json)
    /\ mpc' = "written"
    /\ UNCHANGED <<source, pkg_json, edits>>

ManifestNext ==
    \/ Parse
    \/ RemoveDep
    \/ AddDep
    \/ Write


----------------------------------------------------------------------------
(* Package and Project: the queries (project.rs).                          *)

\* A Package read from the package.json of `dir` holding `doc`.
Package(dir, doc) ==
    [pkg_json_path |-> Push(dir, "package.json"), pkg_json |-> visit_map(doc).pkg]

\* Package::path
PackagePath(pkg) == Parent(pkg.pkg_json_path)

\* The manifests of the packages of a project: a name and up to two
\* declarations of lodash.
Declares(kind, v) == Entry(kind, "", << <<"lodash", v>> >>)

PackageDocs(n) ==
    LET name == Entry("name", n, <<>>) IN
    { <<name>>,
      <<name, Declares("dependencies", "^3.0.0")>>,
      <<name, Declares("dependencies", "^4.0.0")>>,
      <<name, Declares("devDependencies", "^4.0.0")>>,
      <<name, Declares("optionalDependencies", "^3.0.0")>>,
      <<name, Declares("peerDependencies", "^4.0.0")>>,
      <<name, Declares("dependencies", "^4.0.0"), Declares("devDependencies", "^4.0.0")>> }

RootDir == <<"repo">>

ProjectDocs == UNION { PackageDocs(n) : n \in PkgNames }

RootPackages == { Package(RootDir, doc) : doc \in ProjectDocs }

MemberPackages == { Package(d, doc) : d \in Subtree(RootDir), doc \in ProjectDocs }

\* The member maps discovery can build beside `root`: keyed by the member's own
\* name, one manifest file per member, the file at the root's path being the
\* root's.
MembersBeside(root) ==
    UNION { { m \in [names -> MemberPackages] :
                /\ \A n \in names : m[n].pkg_json.name = n
                /\ \A n1, n2 \in names : n1 # n2 => m[n1].pkg_json_path # m[n2].pkg_json_path
                /\ \A n \in names : m[n].pkg_json_path = root.pkg_json_path => m[n] = root }
          : names \in SUBSET PkgNames }

Projects ==
    { [root |-> r, some |-> FALSE, packages |-> <<>>, manager |-> "Yarn"] : r \in RootPackages }
      \cup UNION { { [root |-> r, some |-> TRUE, packages |-> m, manager |-> "Yarn"]
                     : m \in MembersBeside(r) } : r \in RootPackages }

\* The orders a HashMap can yield its keys in.
Orders(keys) ==
    { o \in [1..Cardinality(keys) -> keys] : Injective(o) }

\* Project::iter: the members in the map's order, then the root.
iter(p, order) == [i \in 1..Len(order) |-> p.packages[order[i]]] \o <<p.root>>

\* PackageJson::iter_normal_deps
iter_normal_deps(pj) ==
    <<pj.dependencies, pj.dev_dependencies, pj.optional_dependencies>>

\* matches.entry(specifier).or_default().push(name)
PushMatch(matches, specifier, n) ==
    [s \in DOMAIN matches \cup {specifier} |->
        IF s = specifier
        THEN IF s \in DOMAIN matches THEN Append(matches[s], n) ELSE <<n>>
        ELSE matches[s]]

\* The inner loop of find_dependents, for one package.
RECURSIVE ScanDeps(_, _, _, _)
ScanDeps(matches, depMaps, pkgName, name) ==
    IF depMaps = <<>> THEN matches
    ELSE ScanDeps(
            IF name \in DOMAIN Head(depMaps)
            THEN PushMatch(matches, Head(depMaps)[name], pkgName) ELSE matches,
            Tail(depMaps), pkgName, name)

RECURSIVE ScanPackages(_, _, _)
ScanPackages(matches, pkgs, name) ==
    IF pkgs = <<>> THEN matches
    ELSE ScanPackages(
            ScanDeps(matches, iter_normal_deps(Head(pkgs).pkg_json),
                     Head(pkgs).pkg_json.name, name),
            Tail(pkgs), name)

\* Project::find_dependents: specifier -> the names pushed for it
find_dependents(p, name, order) ==
    ScanPackages([s \in {} |-> <<>>], iter(p, order), name)

\* A reference to a package of the project: the root, or the member of a key.
NoPackage == [kind |-> "none", key |-> "-"]
RootRef == [kind |-> "root", key |-> "-"]
MemberRef(n) == [kind |-> "member", key |-> n]

Deref(p, ref) == IF ref.kind = "root" THEN p.root ELSE p.packages[ref.key]

\* closest_pkg's pkg_map: the root's directory first, then each member's; an
\* insert at a directory already present replaces the reference there.
RECURSIVE InsertMembers(_, _, _)
InsertMembers(pkg_map, p, order) ==
    IF order = <<>> THEN pkg_map
    ELSE LET dir == PackagePath(p.packages[Head(order)]) IN
         InsertMembers(
            [d \in DOMAIN pkg_map \cup {dir} |->
                IF d = dir THEN MemberRef(Head(order)) ELSE pkg_map[d]],
            p, Tail(order))

\* a lookup of `at` alone, with no walk to its ancestors
LookupHere(pkg_map, at) == IF at \in DOMAIN pkg_map THEN pkg_map[at] ELSE NoPackage

\* closest_pkg's loop: up from `at` to the first directory of pkg_map
RECURSIVE Lookup(_, _)
Lookup(pkg_map, at) ==
    IF at \in DOMAIN pkg_map THEN pkg_map[at]
    ELSE IF HasParent(at) THEN Lookup(pkg_map, Parent(at))
    ELSE NoPackage

\* Project::closest_pkg
closest_pkg(p, at, order) ==
    Lookup(InsertMembers([d \in {PackagePath(p.root)} |-> RootRef], p, order), at)

\* Project::get_mut (and Project::get)
get_mut(p, name) ==
    IF p.root.pkg_json.name = name THEN RootRef
    ELSE IF p.some /\ name \in DOMAIN p.packages THEN MemberRef(name)
    ELSE NoPackage

\* Project::closest_pkg_mut
closest_pkg_mut(p, at, order) ==
    LET pkg == closest_pkg(p, at, order) IN
    IF pkg.kind # "none" THEN get_mut(p, Deref(p, pkg).pkg_json.name) ELSE NoPackage

\* The paths queries are made with: the tree, a directory inside a member, and
\* a directory outside the project.
QueryPaths == Dirs \cup { <<"repo", "foo", "src">>, <<"other">> }

NoAnswer ==
    [op |-> "none", name |-> "-", at |-> <<>>, pkg |-> NoPackage,
     dependents |-> [s \in {} |-> <<>>]]

ProjectStart ==
    /\ project \in Projects
    /\ answer = NoAnswer

\* the value of a Project variable before Project::find has returned
NoProject ==
    [root |-> Package(RootDir, <<Entry("name", "a", <<>>)>>), some |-> FALSE,
     packages |-> <<>>, manager |-> "Yarn"]

ProjectIdle ==
    /\ project = NoProject
    /\ answer = NoAnswer

MemberOrders == IF project.some THEN Orders(DOMAIN project.packages) ELSE {<<>>}

FindDependents ==
    /\ QueryFrame
    /\ answer = NoAnswer
    /\ \E name \in DepNames, order \in MemberOrders :
         answer' = [NoAnswer EXCEPT !.op = "find_dependents", !.name = name,
                                    !.dependents = find_dependents(project, name, order)]
    /\ UNCHANGED project

ClosestPkg ==
    /\ QueryFrame
    /\ answer = NoAnswer
    /\ \E at \in QueryPaths, order \in MemberOrders :
         answer' = [NoAnswer EXCEPT !.op = "closest_pkg", !.at = at,
                                    !.pkg = closest_pkg(project, at, order)]
    /\ UNCHANGED project

ClosestPkgMut ==
    /\ QueryFrame
    /\ answer = NoAnswer
    /\ \E at \in QueryPaths, order \in MemberOrders :
         answer' = [NoAnswer EXCEPT !.op = "closest_pkg_mut", !.at = at,
                                    !.pkg = closest_pkg_mut(project, at, order)]
    /\ UNCHANGED project

ProjectNext ==
    \/ FindDependents
    \/ ClosestPkg
    \/ ClosestPkgMut

----------------------------------------------------------------------------
(* The command line: main (main.rs).                                       *)

\* The exit status of a process whose main thread panicked.
PanicExitCode == 101

\* Largest exit code a child process ends with.
MaxCode == 2

\* Most dependency names on one command line.
MaxDeps == 1

\* ExitStatus of a child: code() is Some(code), or None when a signal ended it.
ExitStatuses ==
    { [some |-> TRUE, code |-> c] : c \in 0..MaxCode } \cup { [some |-> FALSE, code |-> 0] }

\* status.code().unwrap_or(1)
CodeOf(status) == IF status.some THEN status.code ELSE 1

NoChild == [ran |-> FALSE, what |-> "-", status |-> [some |-> FALSE, code |-> 0]]

\* What the registry answers for a name: its dist-tags.latest, or an error.
LatestVersions == {"4.0.0", "5.0.0"}
FetchError == "error"
RegistryAnswers == LatestVersions \cup {FetchError}

\* format!("^{}", latest_version)
Caret(version) == "^" \o version

\* the specifiers in the order of their strings
SortedSpecifiers == <<"^3.0.0", "^4.0.0", "^5.0.0">>

\* Select::interact: the index chosen, or the failure of the prompt
InteractFailed == -1
Selections == InteractFailed .. Cardinality(Specifiers)

\* Subcommand, with the fields of all variants
Opt(cmd, dependencies, skip_install, dev, everywhere, args) ==
    [cmd |-> cmd, dependencies |-> dependencies, skip_install |-> skip_install,
     dev |-> dev, everywhere |-> everywhere, args |-> args]

DepLists == UNION { [1..n -> DepNames] : n \in 0..MaxDeps }

\* the verbs handed to the package manager as they are
PassThrough == {"add", "install", "remove", "why"}

Subcommands ==
    { Opt("scripts", <<>>, FALSE, FALSE, FALSE, <<>>) }
      \cup { Opt("add", deps, skip, dev, FALSE, <<>>)
               : deps \in DepLists, skip \in BOOLEAN, dev \in BOOLEAN }
      \cup { Opt("upgrade", deps, skip, FALSE, FALSE, <<>>)
               : deps \in DepLists, skip \in BOOLEAN }
      \cup { Opt("remove", deps, skip, FALSE, everywhere, <<>>)
               : deps \in DepLists, skip \in BOOLEAN, everywhere \in BOOLEAN }
      \cup { Opt("other", <<>>, FALSE, FALSE, FALSE, <<verb>>)
               : verb \in {"install", "build", "tsc"} }

\* The manifests on disk: the root's and one below it.
RootFile == Push(RootDir, "package.json")
MemberFile == Push(<<"repo", "foo">>, "package.json")

NoFile == <<>>
BadDoc == <<Entry("name", InvalidName, <<>>)>>

MainDocs(n) ==
    LET name == Entry("name", n, <<>>) IN
    { <<name>>,
      <<name, Declares("dependencies", "^3.0.0")>>,
      <<name, Entry("scripts", "", << <<"build", "tsc">> >>),
        Declares("devDependencies", "^4.0.0")>>,
      <<name, Entry("scripts", "", <<>>), Entry("version", "1.0.0", <<>>)>> }

Disks ==
    { [f \in {RootFile, MemberFile} |-> IF f = RootFile THEN r ELSE m]
        : r \in MainDocs("a") \cup {BadDoc},
          m \in MainDocs("a") \cup MainDocs("b") \cup {BadDoc, NoFile} }

\* The workspace configuration at the root: none, unreadable, globs matching the
\* manifests below the root, or a glob matching every manifest.
Workspaces == {"none", "bad", "members", "all"}

\* the manifest files find_packages yields
MatchedFiles(fs, ws) ==
    { f \in DOMAIN fs : fs[f] # NoFile /\ (f # RootFile \/ ws = "all") }

\* the Project built from the manifests, for each order of the walk
DiscoveredProjects(fs, ws) ==
    LET root == Package(RootDir, fs[RootFile]) IN
    IF ws = "none"
    THEN { [root |-> root, some |-> FALSE, packages |-> <<>>, manager |-> "Yarn"] }
    ELSE LET members == { Package(Parent(f), fs[f]) : f \in MatchedFiles(fs, ws) }
             names == { m.pkg_json.name : m \in members }
         IN { [root |-> root, some |-> TRUE, packages |-> map, manager |-> "Yarn"]
                : map \in { m \in [names -> members] :
                              \A n \in names : m[n].pkg_json.name = n } }

NoLine == [msg |-> "-", dep |-> "-", version |-> "-"]

\* process::exit, a return from main, and a panic
Exit(code, kind) ==
    /\ mainpc' = "exited"
    /\ exit_code' = code
    /\ failure' = kind

Panic(kind) == Exit(PanicExitCode, kind)

Proceed(next) ==
    /\ mainpc' = next
    /\ UNCHANGED <<exit_code, failure>>

\* `if !skip_install { run_package_manager_at_project_root(..).unwrap() }`
ThenInstall == IF opt.skip_install THEN Exit(0, "none") ELSE Proceed("install")

\* main, up to the match: Project::find(&current_dir).unwrap()
MainProjectFind ==
    /\ MainFrame
    /\ mainpc = "start"
    /\ UNCHANGED <<cwd, opt, disk, workspace, child, stdout>>
    /\ \E lock \in BOOLEAN :
         IF ~lock
         THEN Panic("CouldNotFindLockfile") /\ UNCHANGED <<project, discovered>>
         ELSE IF workspace = "bad"
         THEN Panic("SerdeJson") /\ UNCHANGED <<project, discovered>>
         ELSE IF workspace # "none"
                 /\ \E f \in MatchedFiles(disk, workspace) : visit_map(disk[f]).tag # "Ok"
         THEN Panic("SerdeJson") /\ UNCHANGED <<project, discovered>>
         ELSE IF visit_map(disk[RootFile]).tag # "Ok"
         THEN Panic("SerdeJson") /\ UNCHANGED <<project, discovered>>
         ELSE \E p \in DiscoveredProjects(disk, workspace) :
                /\ project' = p
                /\ discovered' = p
                /\ Proceed(opt.cmd)

\* Subcommand::Scripts
MainScripts ==
    /\ MainFrame
    /\ mainpc = "scripts"
    /\ UNCHANGED <<cwd, opt, disk, workspace, child, project, discovered>>
    /\ \E order \in MemberOrders :
         IF closest_pkg(project, cwd, order).kind = "none"
         THEN Panic("no package") /\ UNCHANGED stdout
         ELSE /\ stdout' = Append(stdout, [NoLine EXCEPT !.msg = "Available scripts"])
              /\ Exit(0, "none")

\* the keys of find_dependents' result, as the BTreeMap yields them
ExistingKeys(existing) == SelectSeq(SortedSpecifiers, LAMBDA s : s \in DOMAIN existing)

\* the items of add's prompt: the latest range, then the versions in the repo
Items(existing, latest_version) == <<Caret(latest_version)>> \o ExistingKeys(existing)

\* add asks when the name is in the repo and not with the latest range
Asks(existing, latest_version) ==
    DOMAIN existing # {} /\ Caret(latest_version) \notin DOMAIN existing

\* One turn of add's loop.
AddOne(st, dep, latest_version, existing, dev, selection) ==
    IF st.err THEN st
    ELSE IF ~Asks(existing, latest_version)
    THEN [st EXCEPT !.pkg_json = add_dep(@, dep, Caret(latest_version), dev)]
    ELSE IF selection = InteractFailed
    THEN [st EXCEPT !.err = TRUE]
    ELSE [st EXCEPT !.pkg_json =
            add_dep(@, dep, Items(existing, latest_version)[selection + 1], dev)]

\* add's loop over deps_with_latests; `p` is not changed by it.
RECURSIVE AddLoop(_, _, _, _, _, _, _)
AddLoop(st, p, order, deps, versions, dev, selections) ==
    IF deps = <<>> THEN st
    ELSE AddLoop(AddOne(st, Head(deps), Head(versions),
                        find_dependents(p, Head(deps), order), dev, Head(selections)),
                 p, order, Tail(deps), Tail(versions), dev, Tail(selections))

\* Subcommand::Add: add(..).unwrap(), then the install step
MainAdd ==
    /\ MainFrame
    /\ mainpc = "add"
    /\ UNCHANGED <<cwd, opt, workspace, child, stdout, project, discovered>>
    /\ \E order \in MemberOrders :
         LET ref == closest_pkg(project, cwd, order)
             deps == opt.dependencies
         IN
         IF ref.kind = "none" THEN Panic("no package") /\ UNCHANGED disk
         ELSE \E versions \in [DOMAIN deps -> RegistryAnswers] :
           IF \E i \in DOMAIN deps : versions[i] = FetchError
           THEN Panic("registry") /\ UNCHANGED disk
           ELSE \E selections \in [DOMAIN deps -> Selections] :
             /\ \A i \in DOMAIN deps :
                  selections[i] <
                     Len(Items(find_dependents(project, deps[i], order), versions[i]))
             /\ LET pkg == Deref(project, ref)
                    st == AddLoop([pkg_json |-> pkg.pkg_json, err |-> FALSE], project, order,
                                  deps, versions, opt.dev, selections)
                IN IF st.err THEN Panic("Io") /\ UNCHANGED disk
                   ELSE \E wrote \in BOOLEAN :
                          IF ~wrote THEN Panic("write") /\ UNCHANGED disk
                          ELSE /\ disk' = [disk EXCEPT ![pkg.pkg_json_path] =
                                                serialize(st.pkg_json)]
                               /\ ThenInstall

\* the line upgrade prints for one name
UpgradeLine(dep, latest_version, existing) ==
    [msg |-> IF DOMAIN existing = {} THEN "is not present in the repo"
             ELSE "has been upgraded to",
     dep |-> dep, version |-> Caret(latest_version)]

\* Subcommand::Upgrade: upgrade(..).unwrap(), then the install step
MainUpgrade ==
    /\ MainFrame
    /\ mainpc = "upgrade"
    /\ UNCHANGED <<cwd, opt, disk, workspace, child, project, discovered>>
    /\ \E order \in MemberOrders :
         LET deps == opt.dependencies IN
         \E versions \in [DOMAIN deps -> RegistryAnswers] :
           LET failed == { i \in DOMAIN deps : versions[i] = FetchError }
               reached == IF failed = {} THEN Len(deps)
                          ELSE (CHOOSE i \in failed : \A j \in failed : i <= j) - 1
           IN /\ stdout' = stdout \o
                    [i \in 1..reached |->
                        UpgradeLine(deps[i], versions[i],
                                    find_dependents(project, deps[i], order))]
              /\ IF failed # {} THEN Panic("registry") ELSE ThenInstall

\* Project::iter_mut: the members in the map's order, then the root
iter_mut(order) == [i \in 1..Len(order) |-> MemberRef(order[i])] \o <<RootRef>>

\* do_remove's loop over the names
RECURSIVE RemoveAll(_, _)
RemoveAll(pj, deps) ==
    IF deps = <<>> THEN pj ELSE RemoveAll(remove_dep(pj, Head(deps)), Tail(deps))

\* a check of --everywhere that lets every project through
NeverRefused(p, everywhere) == FALSE

\* `if everywhere { match &mut project.packages { .. None => { .. exit(1) } } }`
EverywhereRefused(p, everywhere) == everywhere /\ ~p.some

\* Subcommand::Remove: do_remove on every package or on the closest one, then
\* the install step; `failAt` is the package whose write fails, if any.
MainRemove ==
    /\ MainFrame
    /\ mainpc = "remove"
    /\ UNCHANGED <<cwd, opt, workspace, child, stdout, discovered>>
    /\ IF EverywhereRefused(project, opt.everywhere)
       THEN Exit(1, "not a monorepo") /\ UNCHANGED <<project, disk>>
       ELSE \E order \in MemberOrders :
         LET refs == IF opt.everywhere THEN iter_mut(order)
                     ELSE <<closest_pkg_mut(project, cwd, order)>>
         IN
         IF \E i \in DOMAIN refs : refs[i].kind = "none"
         THEN Panic("no package") /\ UNCHANGED <<project, disk>>
         ELSE \E failAt \in 0..Len(refs) :
           LET last == IF failAt = 0 THEN Len(refs) ELSE failAt
               removed == { refs[i] : i \in 1..last }
               wrote == { refs[i] : i \in 1..last } \ { refs[i] : i \in {failAt} \ {0} }
               after(ref) == [Deref(project, ref) EXCEPT
                                 !.pkg_json = RemoveAll(@, opt.dependencies)]
           IN /\ project' =
                   [project EXCEPT
                      !.root = IF RootRef \in removed THEN after(RootRef) ELSE @,
                      !.packages = [n \in DOMAIN @ |->
                                      IF MemberRef(n) \in removed
                                      THEN after(MemberRef(n)) ELSE @[n]]]
              /\ disk' =
                   [f \in DOMAIN disk |->
                      IF \E ref \in wrote : Deref(project, ref).pkg_json_path = f
                      THEN serialize(after(CHOOSE ref \in wrote :
                                        Deref(project, ref).pkg_json_path = f).pkg_json)
                      ELSE disk[f]]
              /\ IF failAt # 0 THEN Panic("write") ELSE ThenInstall

\* run_package_manager_at_project_root(&project, &["install"]).unwrap()
MainInstall ==
    /\ MainFrame
    /\ mainpc = "install"
    /\ UNCHANGED <<cwd, opt, disk, workspace, stdout, project, discovered>>
    /\ \E spawned \in BOOLEAN, status \in ExitStatuses :
         IF ~spawned THEN Panic("Io") /\ UNCHANGED child
         ELSE /\ child' = [ran |-> TRUE, what |-> "install", status |-> status]
              /\ IF CodeOf(status) = 0 THEN Exit(0, "none")
                 ELSE Panic("ChildProcessExit")

\* the child of Subcommand::Other and what main does with its result
RunChild(what) ==
    \E spawned \in BOOLEAN, status \in ExitStatuses :
      IF ~spawned THEN Exit(1, "Io") /\ UNCHANGED child
      ELSE /\ child' = [ran |-> TRUE, what |-> what, status |-> status]
           /\ IF CodeOf(status) = 0 THEN Exit(0, "none")
              ELSE Exit(CodeOf(status), "ChildProcessExit")

\* Subcommand::Other: a pass-through verb, a script or a local binary
MainOther ==
    /\ MainFrame
    /\ mainpc = "other"
    /\ UNCHANGED <<cwd, opt, disk, workspace, stdout, project, discovered>>
    /\ LET bin == opt.args[1] IN
       IF bin \in PassThrough THEN RunChild("pass-through")
       ELSE \E order \in MemberOrders :
         LET ref == closest_pkg(project, cwd, order) IN
         IF ref.kind = "none" THEN Panic("no package") /\ UNCHANGED child
         ELSE IF \E i \in DOMAIN Deref(project, ref).pkg_json.scripts :
                    Deref(project, ref).pkg_json.scripts[i][1] = bin
         THEN RunChild("script")
         ELSE \E found \in BOOLEAN :
                IF ~found THEN Exit(1, "CouldNotFindScriptOrBinary") /\ UNCHANGED child
                ELSE RunChild("binary")

MainStart ==
    /\ cwd \in {RootDir, <<"repo", "foo">>}
    /\ opt \in Subcommands
    /\ disk \in Disks
    /\ workspace \in Workspaces
    /\ mainpc = "start"
    /\ exit_code = 0
    /\ child = NoChild
    /\ failure = "none"
    /\ stdout = <<>>
    /\ discovered = NoProject

MainIdle ==
    /\ cwd = RootDir
    /\ opt = Opt("none", <<>>, FALSE, FALSE, FALSE, <<>>)
    /\ disk = [f \in {RootFile, MemberFile} |-> NoFile]
    /\ workspace = "none"
    /\ mainpc = "idle"
    /\ exit_code = 0
    /\ child = NoChild
    /\ failure = "none"
    /\ stdout = <<>>
    /\ discovered = NoProject

MainNext ==
    \/ MainProjectFind
    \/ MainScripts
    \/ MainAdd
    \/ MainUpgrade
    \/ MainRemove
    \/ MainInstall
    \/ MainOther

----------------------------------------------------------------------------
(* The registry lookups of add: get_latest_versions (main.rs).             *)

\* Most names handed to get_latest_versions.
MaxFetches == 2

FetchInputs == UNION { [1..n -> DepNames] : n \in 0..MaxFetches }

\* One future of the stream: not yet polled, in flight, or completed with the
\* pair it maps its version to or with an error; `at` is its rank among the
\* completions.
Created == [st |-> "created", version |-> "-", at |-> 0, taken |-> FALSE]

Completions(f) == Cardinality({ i \in DOMAIN f : f[i].st \in {"ok", "err"} })

\* A stream that yields the outputs in the order the futures complete in.
NextUnordered(f, out) ==
    IF \E i \in DOMAIN f : f[i].st \in {"ok", "err"} /\ ~f[i].taken
    THEN CHOOSE i \in DOMAIN f :
            /\ f[i].st \in {"ok", "err"} /\ ~f[i].taken
            /\ \A j \in DOMAIN f :
                 (f[j].st \in {"ok", "err"} /\ ~f[j].taken) => f[i].at <= f[j].at
    ELSE IF \E i \in DOMAIN f : ~f[i].taken
    THEN CHOOSE i \in DOMAIN f : ~f[i].taken
    ELSE Len(f) + 1

\* FuturesOrdered yields the outputs in the order the futures were pushed in.
NextOrdered(f, out) == Len(out) + 1

\* the manifest add inserts into
FetchPkg == visit_map(<<Entry("name", "a", <<>>)>>).pkg

\* `for pkg in packages { futures_unordered.push(async move { .. }) }` and the
\* first poll of the stream, which starts every request
FetchIssue ==
    /\ FetchFrame
    /\ fpc = "start"
    /\ fetches' = [i \in DOMAIN packages |-> [fetches[i] EXCEPT !.st = "pending"]]
    /\ fpc' = "collecting"
    /\ UNCHANGED <<packages, collected, fpkg>>

\* get_npm_package_version of one request returns, `.map(|version| (pkg, version))`
FetchComplete ==
    /\ FetchFrame
    /\ fpc = "collecting"
    /\ \E i \in DOMAIN fetches, answer_i \in RegistryAnswers :
         /\ fetches[i].st = "pending"
         /\ fetches' = [fetches EXCEPT ![i] =
                          [@ EXCEPT !.st = IF answer_i = FetchError THEN "err" ELSE "ok",
                                    !.version = answer_i,
                                    !.at = Completions(fetches) + 1]]
    /\ UNCHANGED <<packages, collected, fpc, fpkg>>

\* try_collect: the stream's next output, pushed to the Vec, or the first error
FetchCollect ==
    /\ FetchFrame
    /\ fpc = "collecting"
    /\ LET i == NextOrdered(fetches, collected) IN
       IF i > Len(fetches)
       THEN /\ fpc' = "Ok"
            /\ UNCHANGED <<fetches, collected>>
       ELSE /\ fetches[i].st \in {"ok", "err"}
            /\ fetches' = [fetches EXCEPT ![i].taken = TRUE]
            /\ IF fetches[i].st = "ok"
               THEN /\ collected' = Append(collected, <<packages[i], fetches[i].version>>)
                    /\ UNCHANGED fpc
               ELSE /\ fpc' = "Err"
                    /\ UNCHANGED collected
    /\ UNCHANGED <<packages, fpkg>>

\* add's loop over deps_with_latests, for names the repo does not have
RECURSIVE AddFetched(_, _)
AddFetched(pj, pairs) ==
    IF pairs = <<>> THEN pj
    ELSE AddFetched(add_dep(pj, Head(pairs)[1], Caret(Head(pairs)[2]), FALSE), Tail(pairs))

\* `get_latest_versions(dependencies).unwrap()` and the loop after it
FetchUnwrap ==
    /\ FetchFrame
    /\ fpc \in {"Ok", "Err"}
    /\ IF fpc = "Ok"
       THEN /\ fpkg' = AddFetched(fpkg, collected)
            /\ fpc' = "added"
       ELSE /\ fpc' = "panicked"
            /\ UNCHANGED fpkg
    /\ UNCHANGED <<packages, fetches, collected>>

FetchStart ==
    /\ packages \in FetchInputs
    /\ fetches = [i \in DOMAIN packages |-> Created]
    /\ collected = <<>>
    /\ fpc = "start"
    /\ fpkg = FetchPkg

FetchIdle ==
    /\ packages = <<>>
    /\ fetches = <<>>
    /\ collected = <<>>
    /\ fpc = "idle"
    /\ fpkg = FetchPkg

FetchNext ==
    \/ FetchIssue
    \/ FetchComplete
    \/ FetchCollect
    \/ FetchUnwrap

----------------------------------------------------------------------------
(* Package names: PackageName (package_name.rs).                           *)

\* A name is the sequence of its bytes, each written as a one-character string.

\* Longest name enumerated byte by byte.
MaxLen == 4

\* `name.len() > 214`
MaxNameLen == 214

\* The bytes names are made of: lower-case letters, a digit, the three marks,
\* '@', '/', and an upper-case letter for the bytes outside the character set.
Bytes == {"f", "s", "8", "_", "-", ".", "@", "/", "A"}

\* the string of a sequence of bytes
RECURSIVE Str(_)
Str(bytes) ==
    IF bytes = <<>> THEN ""
    ELSE IF Len(bytes) = 1 THEN bytes[1]
    ELSE Str(SubSeq(bytes, 1, Len(bytes) \div 2))
            \o Str(SubSeq(bytes, Len(bytes) \div 2 + 1, Len(bytes)))

\* `head` followed by 's' up to the length n
Filled(head, n) == [i \in 1..n |-> IF i <= Len(head) THEN head[i] ELSE "s"]

\* The names given to PackageName::new: every short one, and names of the
\* longest length accepted and of one byte more.
RawNames ==
    UNION { [1..n -> Bytes] : n \in 0..MaxLen }
      \cup { Filled(head, n) : head \in { <<"s">>, <<"@", "s", "/", "f">>, <<"@", "s">> },
                               n \in {MaxNameLen, MaxNameLen + 1} }

\* is_valid_package_name_byte that lets upper-case letters through
is_valid_byte_or_upper(byte) == byte \in {"f", "s", "8", "_", "-", ".", "A"}

\* is_valid_package_name_byte: b'a'..=b'z' | b'0'..=b'9' | b'_' | b'-' | b'.'
is_valid_package_name_byte(byte) == byte \in {"f", "s", "8", "_", "-", "."}

\* is_bytes_valid_pkg_name
is_bytes_valid_pkg_name(bytes) ==
    \A i \in DOMAIN bytes : is_valid_package_name_byte(bytes[i])

\* INVALID_NAMES
INVALID_NAMES ==
    { "node_modules", "favicon.ico", "assert", "async_hooks", "buffer",
      "child_process", "cluster", "console", "constants", "crypto", "dgram", "dns",
      "domain", "events", "fs", "http", "http2", "https", "inspector", "module",
      "net", "os", "path", "perf_hooks", "process", "punycode", "querystring",
      "readline", "repl", "stream", "string_decoder", "timers", "tls",
      "trace_events", "tty", "url", "util", "v8", "vm", "wasi", "worker_threads",
      "zlib" }

\* Option<NonZeroUsize>
NoStart == [some |-> FALSE, pos |-> 0]
StartAt(pos) == [some |-> TRUE, pos |-> pos]

\* Err(PackageNameParseError(name)) and Ok(PackageName { name, scoped_name_start })
NameErr(name) == [tag |-> "Err", name |-> name, scoped_name_start |-> NoStart]
NameOk(name, start) == [tag |-> "Ok", name |-> name, scoped_name_start |-> start]

\* bytes[from..], with the slice's 0-based start
SliceFrom(bytes, from) == SubSeq(bytes, from + 1, Len(bytes))

\* `for (pos, &byte) in bytes[1..].iter().enumerate()` of PackageName::new: the
\* loop goes on over valid bytes and returns at the first other byte, which is
\* '/' or an error, or after the last byte.
ScanScope(name) ==
    LET rest1 == SliceFrom(name, 1)
        stops == { pos \in 0..(Len(rest1) - 1) : ~is_valid_package_name_byte(rest1[pos + 1]) }
    IN IF stops = {} THEN NameErr(name)
       ELSE LET pos == CHOOSE q \in stops : \A r \in stops : q <= r IN
            IF rest1[pos + 1] = "/"
            THEN IF is_bytes_valid_pkg_name(SliceFrom(name, pos + 2))
                 THEN NameOk(name, StartAt(pos + 1))
                 ELSE NameErr(name)
            ELSE NameErr(name)

\* PackageName::new
PackageNameNew(name) ==
    IF Len(name) > MaxNameLen \/ Len(name) = 0 THEN NameErr(name)
    ELSE IF name[1] \in {".", "_"} THEN NameErr(name)
    ELSE IF name[1] = "@" THEN ScanScope(name)
    ELSE IF ~is_bytes_valid_pkg_name(name) THEN NameErr(name)
    ELSE IF Str(name) \in INVALID_NAMES THEN NameErr(name)
    ELSE NameOk(name, NoStart)

\* PackageName::as_str
as_str(pn) == pn.name

\* PackageName::is_scoped
is_scoped(pn) == pn.scoped_name_start.some

\* &s[from..to]: a slice, or a panic when the range is not one of s
Slice(s, from, to) ==
    IF from > to \/ to > Len(s) THEN [panic |-> TRUE, bytes |-> <<>>]
    ELSE [panic |-> FALSE, bytes |-> SubSeq(s, from + 1, to)]

NoScoped == [tag |-> "None", scope |-> <<>>, name |-> <<>>]

\* PackageName::scoped
scoped(pn) ==
    IF ~pn.scoped_name_start.some THEN NoScoped
    ELSE LET pos == pn.scoped_name_start.pos
             name == Slice(as_str(pn), 1, pos - 1)
             scope == Slice(as_str(pn), pos, Len(as_str(pn)))
         IN IF name.panic \/ scope.panic
            THEN [NoScoped EXCEPT !.tag = "panic"]
            ELSE [tag |-> "Some", scope |-> scope.bytes, name |-> name.bytes]

NoNameAnswer == [op |-> "none", is_scoped |-> FALSE, scoped |-> NoScoped]

\* PackageName::new(input)
NameNew ==
    /\ NameFrame
    /\ npc = "given"
    /\ nresult' = PackageNameNew(input)
    /\ npc' = "new"
    /\ UNCHANGED <<input, nanswer>>

\* name.scoped()
NameScoped ==
    /\ NameFrame
    /\ npc = "new"
    /\ nresult.tag = "Ok"
    /\ nanswer' = [NoNameAnswer EXCEPT !.op = "scoped", !.scoped = scoped(nresult)]
    /\ npc' = "asked"
    /\ UNCHANGED <<input, nresult>>

\* name.is_scoped()
NameIsScoped ==
    /\ NameFrame
    /\ npc = "new"
    /\ nresult.tag = "Ok"
    /\ nanswer' = [NoNameAnswer EXCEPT !.op = "is_scoped", !.is_scoped = is_scoped(nresult)]
    /\ npc' = "asked"
    /\ UNCHANGED <<input, nresult>>

NameStart ==
    /\ input \in RawNames
    /\ nresult = [tag |-> "none", name |-> <<>>, scoped_name_start |-> NoStart]
    /\ nanswer = NoNameAnswer
    /\ npc = "given"

NameIdle ==
    /\ input = <<>>
    /\ nresult = [tag |-> "none", name |-> <<>>, scoped_name_start |-> NoStart]
    /\ nanswer = NoNameAnswer
    /\ npc = "idle"

NameNext ==
    \/ NameNew
    \/ NameScoped
    \/ NameIsScoped

----------------------------------------------------------------------------
(* The specifications.                                                     *)

\* Package::find and Project::find on a filesystem read as they go.
FindInit == FindStart /\ ManifestIdle /\ ProjectIdle /\ MainIdle /\ FetchIdle /\ NameIdle

FindSpec == FindInit /\ [][FindNext]_vars

\* Each call runs to completion: no step of it waits on anything.
FindFairSpec == FindSpec /\ WF_vars(FindNext)

\* One manifest document parsed, edited and written back.
ManifestInit == ManifestStart /\ FindStart /\ ProjectIdle /\ MainIdle /\ FetchIdle /\ NameIdle

ManifestSpec == ManifestInit /\ [][ManifestNext]_vars

\* A discovered Project and the queries made of it.
ProjectInit == ProjectStart /\ FindStart /\ ManifestIdle /\ MainIdle /\ FetchIdle /\ NameIdle

ProjectSpec == ProjectInit /\ [][ProjectNext]_vars

\* One run of the command line, from its arguments to the exit of the process.
MainInit == MainStart /\ FindStart /\ ManifestIdle /\ ProjectIdle /\ FetchIdle /\ NameIdle

MainSpec == MainInit /\ [][MainNext]_vars

\* get_latest_versions and the loop of add that uses its result.
FetchInit == FetchStart /\ FindStart /\ ManifestIdle /\ ProjectIdle /\ MainIdle /\ NameIdle

FetchSpec == FetchInit /\ [][FetchNext]_vars

\* PackageName::new and the accessors of the name it returns.
NameInit == NameStart /\ FindStart /\ ManifestIdle /\ ProjectIdle /\ MainIdle /\ FetchIdle

NameSpec == NameInit /\ [][NameNext]_vars

----------------------------------------------------------------------------
(* Discovery: what is claimed of Package::find and Project::find.          *)

LockArtifacts == {"yarn.lock", "pnpm-lock.yaml", "package-lock.json"}

HasLockArtifact(d) == Range(listing[d]) \cap LockArtifacts # {}

HasPackageJson(d) == pkgjson[d].st \in {"valid", "malformed"}

\* the directories strictly between d (inclusive) and its ancestor r (exclusive)
NearerThan(r, d) == { q \in AncestorSet(d) : Len(q) > Len(r) }

\* C1: Package::find(start_dir) always returns: the Package of the nearest
\* directory among start_dir and its ancestors that holds a package.json, and
\* NotFound when none of them holds one; it never exhausts the stack.
PackageFindReturnsNearest ==
    call.op = "Package::find" =>
        /\ pc # "stack overflow"
        /\ pc = "done" /\ result.tag = "Ok" =>
             LET r == Parent(result.pkg_json_path) IN
             /\ r \in AncestorSet(call.start)
             /\ HasPackageJson(r)
             /\ \A q \in NearerThan(r, call.start) : pkgjson[q].st = "absent"
        /\ pc = "done" /\ result.tag = "Err" /\ result.kind = "NotFound" =>
             \A q \in AncestorSet(call.start) : pkgjson[q].st = "absent"

\* C2: with several lock artifacts in one directory the manager is chosen by the
\* priority yarn.lock, pnpm-lock.yaml, package-lock.json, whatever the order of
\* the directory listing.
ManagerByPriority(names) ==
    IF "yarn.lock" \in names THEN "Yarn"
    ELSE IF "pnpm-lock.yaml" \in names THEN "PNPM"
    ELSE "NPM"

ManagerFollowsPriority ==
    (call.op = "Project::find" /\ pc \in {"load", "done"} /\ package_manager # "none")
        => package_manager = ManagerByPriority(Range(listing[path]))

\* C3 (safety half): the project root is the nearest directory, among start and
\* its ancestors, that holds a lock artifact; no directory above it is examined;
\* the lockfile-not-found error is returned exactly when no directory from
\* start to the filesystem root holds one.
RootIsNearestLock ==
    call.op = "Project::find" =>
        /\ examined \subseteq AncestorSet(call.start)
        /\ package_manager # "none" =>
             /\ path \in AncestorSet(call.start)
             /\ HasLockArtifact(path)
             /\ \A q \in NearerThan(path, call.start) :
                   q \in examined /\ ~HasLockArtifact(q)
             /\ \A q \in AncestorSet(path) \ {path} : q \notin examined
        /\ pc = "done" /\ result.tag = "Ok" =>
             /\ package_manager # "none"
             /\ result.root.pkg_json_path = Push(path, "package.json")
        /\ pc = "done" =>
             ((result.tag = "Err" /\ result.kind = "CouldNotFindLockfile")
                <=> \A q \in AncestorSet(call.start) :
                       q \in examined /\ ~HasLockArtifact(q))

\* C3: Project::find(start) always terminates, at the nearest directory holding
\* a lock artifact or with the lockfile-not-found error.
ProjectFindTerminatesAtNearestLock ==
    /\ [] RootIsNearestLock
    /\ (pc = "Project::find") ~> (pc = "done")

\* C3's case: the walk went up from start, stopped below the filesystem root at
\* a directory with a lock artifact, and a Project was returned.
ProjectFoundAbove ==
    /\ call.op = "Project::find"
    /\ pc = "done"
    /\ result.tag = "Ok"
    /\ Len(call.start) > Len(path)
    /\ HasParent(path)

\* C7: in every Project produced by discovery no two packages among the root
\* and the workspace members have the same directory.
PackageDirsUnique ==
    (call.op = "Project::find" /\ pc = "done" /\ result.tag = "Ok" /\ result.some) =>
        LET members == result.packages IN
        /\ \A n \in DOMAIN members : members[n] # Parent(result.root.pkg_json_path)
        /\ \A n1, n2 \in DOMAIN members : n1 # n2 => members[n1] # members[n2]

----------------------------------------------------------------------------
(* The manifest: what is claimed of parsing and serializing.               *)

KeysOf(doc) == [i \in DOMAIN doc |-> doc[i].key]

\* a JSON object with distinct keys, one of them `name`, holding valid names
WellFormed(doc) ==
    /\ Injective(KeysOf(doc))
    /\ \E i \in DOMAIN doc : doc[i].key = "name"
    /\ visit_map(doc).tag = "Ok"

\* the same value: strings alike, objects alike as mappings (scripts as written)
SameValue(e, f) ==
    /\ e.str = f.str
    /\ IF e.key \in Range(DEPENDENCY_TYPES)
       THEN DepsFrom(e.map) = DepsFrom(f.map)
       ELSE e.map = f.map

\* C4: a well-formed document, parsed and serialized with no mutation in
\* between, keeps its sequence of top-level keys and every value.
RoundTripKeepsKeysAndValues ==
    (mpc = "written" /\ edits = 0 /\ WellFormed(source)) =>
        /\ KeysOf(written) = KeysOf(source)
        /\ \A i \in DOMAIN source : SameValue(source[i], written[i])

----------------------------------------------------------------------------
(* The Project: what is claimed of its queries.                            *)

Rank(n) == CHOOSE i \in DOMAIN SortedNames : SortedNames[i] = n

Ascending(names) ==
    \A i, j \in DOMAIN names : i < j => Rank(names[i]) <= Rank(names[j])

Count(names, n) == Cardinality({ i \in DOMAIN names : names[i] = n })

PackageRefs(p) ==
    {RootRef} \cup (IF p.some THEN { MemberRef(n) : n \in DOMAIN p.packages } ELSE {})

\* the package declares `name` with specifier s in dependencies,
\* devDependencies or optionalDependencies
DeclaresWith(pkg, name, s) ==
    \E deps \in { pkg.pkg_json.dependencies, pkg.pkg_json.dev_dependencies,
                  pkg.pkg_json.optional_dependencies } :
        name \in DOMAIN deps /\ deps[name] = s

\* C5: find_dependents(name) maps each specifier s to the ascending list of the
\* names of exactly the packages (root and members) that declare `name` with s
\* in dependencies, devDependencies or optionalDependencies, and to nothing else.
FindDependentsSortedAndExact ==
    answer.op = "find_dependents" =>
        LET m == answer.dependents
            users(s) == { r \in PackageRefs(project) :
                            DeclaresWith(Deref(project, r), answer.name, s) }
        IN /\ DOMAIN m = { s \in Specifiers : users(s) # {} }
           /\ \A s \in DOMAIN m :
                /\ Ascending(m[s])
                /\ \A n \in PkgNames :
                     Count(m[s], n) =
                        Cardinality({ r \in users(s) : Deref(project, r).pkg_json.name = n })

\* C6: closest_pkg_mut(path) resolves to the package (the manifest file) that
\* closest_pkg(path) resolves to, and to none exactly when closest_pkg does.
ClosestPkgMutIsClosestPkg ==
    answer.op = "closest_pkg_mut" =>
        \A order \in MemberOrders :
            LET pkg == closest_pkg(project, answer.at, order) IN
            /\ (answer.pkg.kind = "none") <=> (pkg.kind = "none")
            /\ pkg.kind # "none" =>
                 Deref(project, answer.pkg).pkg_json_path = Deref(project, pkg).pkg_json_path

----------------------------------------------------------------------------
(* The command line: what is claimed of exit codes and of upgrade.         *)

\* C8: whenever a delegated subprocess (the install step after add, remove or
\* upgrade, a pass-through verb, a script, a local binary) exits with a
\* non-zero code c, the process exits with exactly c.
ChildExitCodeForwarded ==
    (mainpc = "exited" /\ child.ran /\ child.status.some /\ child.status.code # 0)
        => exit_code = child.status.code

InternalFailures == {"CouldNotFindLockfile", "SerdeJson", "SerdeYaml", "write"}

\* C9: every internal failure of a command (no lock artifact found, a manifest
\* or workspace configuration that fails to parse, an invalid package name in a
\* manifest, a failed manifest write) makes the process exit with code 1.
InternalFailureExitsOne ==
    (mainpc = "exited" /\ failure \in InternalFailures) => exit_code = 1

\* the package declares `name` in dependencies, devDependencies or
\* optionalDependencies
DeclaresName(pj, name) ==
    \E i \in DOMAIN iter_normal_deps(pj) : name \in DOMAIN iter_normal_deps(pj)[i]

\* wherever the package declares `name` in those kinds, it is with `version`
DeclaresOnly(pj, name, version) ==
    \A i \in DOMAIN iter_normal_deps(pj) :
        name \in DOMAIN iter_normal_deps(pj)[i] => iter_normal_deps(pj)[i][name] = version

\* C10: after `upgrade <dep>` completes for a dependency some package declares,
\* every package that declared it declares it, in memory and on disk, with the
\* caret-prefixed latest version the command reports.
UpgradeRewritesDeclarations ==
    (mainpc = "exited" /\ opt.cmd = "upgrade" /\ exit_code = 0) =>
        \A i \in DOMAIN stdout :
            stdout[i].msg = "has been upgraded to" =>
                \A ref \in PackageRefs(discovered) :
                    DeclaresName(Deref(discovered, ref).pkg_json, stdout[i].dep) =>
                        /\ DeclaresName(Deref(project, ref).pkg_json, stdout[i].dep)
                        /\ DeclaresOnly(Deref(project, ref).pkg_json,
                                        stdout[i].dep, stdout[i].version)
                        /\ LET onDisk == visit_map(disk[Deref(discovered, ref).pkg_json_path])
                           IN /\ onDisk.tag = "Ok"
                              /\ DeclaresName(onDisk.pkg, stdout[i].dep)
                              /\ DeclaresOnly(onDisk.pkg, stdout[i].dep, stdout[i].version)

----------------------------------------------------------------------------
(* The command line: what is claimed of add and of remove --everywhere.    *)

\* the entries of a document other than the one of `key`
OtherEntries(doc, key) == SelectSeq(doc, LAMBDA e : e.key # key)

\* the document maps `dep` to the caret range of a latest version under `key`
MapsToLatest(doc, key, dep) ==
    \E i \in DOMAIN doc :
        /\ doc[i].key = key
        /\ \E j \in DOMAIN doc[i].map, latest \in LatestVersions :
              doc[i].map[j] = <<dep, Caret(latest)>>

\* C11: when add is run for a name that find_dependents reports absent from
\* every package, the manifest written for the closest package maps the name
\* to "^" + latest in dependencies (devDependencies with --dev), and every other
\* top-level key of the source document is still there, with its value and in
\* its relative order.
AddKeepsOtherKeys ==
    [][(mainpc = "add" /\ failure' = "none") =>
          \A order \in MemberOrders :
             LET file == Deref(project, closest_pkg(project, cwd, order)).pkg_json_path
                 kind == IF opt.dev THEN "devDependencies" ELSE "dependencies"
             IN \A i \in DOMAIN opt.dependencies :
                  DOMAIN find_dependents(project, opt.dependencies[i], order) = {} =>
                     /\ MapsToLatest(disk'[file], kind, opt.dependencies[i])
                     /\ OtherEntries(disk'[file], kind) = OtherEntries(disk[file], kind)
      ]_vars

----------------------------------------------------------------------------
(* The manifest: what is claimed of absent dependency keys and remove_dep. *)

\* the dependency keys the source document lacks
AbsentKeys == { k \in Range(DEPENDENCY_TYPES) : \A i \in DOMAIN source : source[i].key # k }

\* the step is an insertion into the dependency kind of `key`
InsertsInto(key) ==
    \E n \in DepNames, v \in Specifiers, dev \in BOOLEAN :
        /\ key = (IF dev THEN "devDependencies" ELSE "dependencies")
        /\ pkg_json' = add_dep(pkg_json, n, v, dev)

\* in `doc` the entry of `key` comes after every entry with a key of the source
AfterSourceKeys(doc, key) ==
    \A i, j \in DOMAIN doc :
        (doc[i].key = key /\ doc[j].key \in Range(KeysOf(source))) => j < i

AbsentKeyWritten ==
    mpc = "written" =>
        \A k \in AbsentKeys :
            /\ (k \in Range(KeysOf(written))) <=> (DOMAIN DepsOf(pkg_json, k) # {})
            /\ AfterSourceKeys(written, k)

\* C12: a dependency key the source document lacks is never emitted after any
\* sequence of remove_dep calls and of insertions into the other kinds: its map
\* is filled by an insertion into its own kind only, it is emitted only once its
\* map is non-empty, and then after every key of the source document.
AbsentKeyEmittedOnlyWhenFilled ==
    /\ [] AbsentKeyWritten
    /\ [][\A k \in AbsentKeys :
             (mpc = "parsed" /\ DOMAIN DepsOf(pkg_json', k) # {})
                => (DOMAIN DepsOf(pkg_json, k) # {} \/ InsertsInto(k))]_vars

\* C12's case: a document of several keys without `dependencies`, edited, and
\* written with `dependencies` now in it.
AbsentKeyFilledAndWritten ==
    /\ mpc = "written"
    /\ edits > 0
    /\ Len(source) > 1
    /\ "dependencies" \in AbsentKeys
    /\ "dependencies" \in Range(KeysOf(written))

\* what remove_dep(name) is to do to a manifest `before`, giving `after`
RemovedExactly(before, after, name) ==
    /\ \A k \in Range(DEPENDENCY_TYPES) :
          /\ name \notin DOMAIN DepsOf(after, k)
          /\ DOMAIN DepsOf(after, k) = DOMAIN DepsOf(before, k) \ {name}
          /\ \A m \in DOMAIN DepsOf(after, k) : DepsOf(after, k)[m] = DepsOf(before, k)[m]
    /\ after.scripts = before.scripts
    /\ after.name = before.name
    /\ after.storage = before.storage
    /\ (\A k \in Range(DEPENDENCY_TYPES) : name \notin DOMAIN DepsOf(before, k))
          => after = before

\* C13: remove_dep(name) leaves `name` absent from all four dependency maps
\* whichever held it, changes no other entry, no script, not the name nor any
\* passthrough key, is a no-op when `name` is in none of the maps, and applied
\* twice gives what applying it once gives.
RemoveDepExactAndIdempotent ==
    [][\A n \in DepNames :
          (mpc = "parsed" /\ edits' = edits + 1 /\ pkg_json' = remove_dep(pkg_json, n)) =>
             /\ RemovedExactly(pkg_json, pkg_json', n)
             /\ remove_dep(pkg_json', n) = pkg_json']_vars

\* C13's case: lodash was in dependencies and peerDependencies of the source,
\* beside react, and has been removed.
RemovedFromSeveralMaps ==
    /\ mpc = "parsed"
    /\ edits = 1
    /\ "lodash" \in DOMAIN visit_map(source).pkg.dependencies
    /\ "lodash" \in DOMAIN visit_map(source).pkg.peer_dependencies
    /\ "react" \in DOMAIN pkg_json.dependencies
    /\ \A k \in Range(DEPENDENCY_TYPES) : "lodash" \notin DOMAIN DepsOf(pkg_json, k)

----------------------------------------------------------------------------
(* The command line: remove --everywhere outside a workspace.              *)

\* C14: `remove --everywhere` on a project whose member map is absent
\* (packages = None) exits with code 1 before any manifest is modified in
\* memory or written to disk and before the install step is run.
EverywhereWithoutMembersExitsOne ==
    [][(opt.cmd = "remove" /\ opt.everywhere /\ (mainpc = "start" \/ ~project.some)) =>
          /\ disk' = disk
          /\ ~child'.ran
          /\ mainpc' # "install"
          /\ mainpc = "remove" =>
                /\ project' = project
                /\ mainpc' = "exited"
                /\ exit_code' = 1]_vars

\* C14's case: the project was found without a member map, its root declares
\* the name to remove everywhere, and the process has exited.
EverywhereRefusedWithDeclaration ==
    /\ mainpc = "exited"
    /\ opt.cmd = "remove"
    /\ opt.everywhere
    /\ failure = "not a monorepo"
    /\ ~project.some
    /\ \E i \in DOMAIN opt.dependencies :
          opt.dependencies[i] \in DOMAIN project.root.pkg_json.dependencies

----------------------------------------------------------------------------
(* The registry lookups: what is claimed of get_latest_versions.           *)

FetchedInInputOrder ==
    /\ DOMAIN fetches = DOMAIN packages
    /\ fpc = "collecting" => \A i \in DOMAIN fetches : fetches[i].st # "created"
    /\ fpc \in {"Ok", "added"} =>
          /\ Len(collected) = Len(packages)
          /\ \A i \in DOMAIN packages :
                /\ fetches[i].st = "ok"
                /\ collected[i] = <<packages[i], fetches[i].version>>
    /\ fpc # "added" => fpkg = FetchPkg

\* C15: get_latest_versions issues one fetch per input name, all in flight
\* together, and for every order in which they complete, when all succeed the
\* i-th element of the result pairs the i-th input name with the version
\* fetched for it; no manifest is mutated before all results are collected.
LatestVersionsInInputOrder ==
    /\ [] FetchedInInputOrder
    /\ [][fpkg' # fpkg => fpc = "Ok"]_vars

\* C15's case: two names, the fetch of the second completed first and with
\* another version, and the manifest has been given both.
SecondFetchCompletedFirst ==
    /\ fpc = "added"
    /\ Len(packages) = 2
    /\ packages[1] # packages[2]
    /\ fetches[2].at < fetches[1].at
    /\ fetches[1].version # fetches[2].version
    /\ fpkg # FetchPkg

----------------------------------------------------------------------------
(* The Project: what is claimed of closest_pkg.                            *)

\* the directories of the root and of the members
PackageDirs(p) == { PackagePath(Deref(p, ref)) : ref \in PackageRefs(p) }

\* C16: closest_pkg(path) returns the package whose directory is the deepest
\* one, among the root's and the members', that equals `path` or is an
\* ancestor of it, and none exactly when no package directory is.
ClosestPkgIsDeepestAncestor ==
    answer.op = "closest_pkg" =>
        LET above == { d \in PackageDirs(project) : IsPrefix(d, answer.at) } IN
        /\ (answer.pkg.kind = "none") <=> (above = {})
        /\ answer.pkg.kind # "none" =>
             LET dir == PackagePath(Deref(project, answer.pkg)) IN
             /\ dir \in above
             /\ \A d \in above : Len(d) <= Len(dir)

\* C16's case: a path inside a member that is below the root; the member is
\* returned.
ClosestPkgBelowMember ==
    /\ answer.op = "closest_pkg"
    /\ answer.at = <<"repo", "foo", "src">>
    /\ answer.pkg.kind = "member"
    /\ PackagePath(Deref(project, answer.pkg)) = <<"repo", "foo">>
    /\ PackagePath(project.root) = <<"repo">>

----------------------------------------------------------------------------
(* Package names: what is claimed of PackageName::new and scoped.          *)

\* the bytes of [a-z0-9_.-]
NameCharset == {"f", "s", "8", "_", "-", "."}

\* an unscoped name of the character set that is not a reserved name
UnscopedName(name) ==
    /\ \A i \in DOMAIN name : name[i] \in NameCharset
    /\ Str(name) \notin INVALID_NAMES

\* `@scope/name` with both halves of the character set; k is where '/' is
ScopedNameAt(name, k) ==
    /\ name[1] = "@"
    /\ name[k] = "/"
    /\ \A i \in 2..(k - 1) : name[i] \in NameCharset
    /\ \A i \in (k + 1)..Len(name) : name[i] \in NameCharset

ValidName(name) ==
    /\ Len(name) \in 1..MaxNameLen
    /\ name[1] \notin {".", "_"}
    /\ UnscopedName(name) \/ \E k \in 2..Len(name) : ScopedNameAt(name, k)

\* C17: PackageName::new(raw) succeeds exactly when raw has a length in
\* [1,214], its first byte is not '.' or '_', and raw is an unscoped name of
\* [a-z0-9_.-] that is not reserved or a scoped name `@scope/name` with both
\* halves of [a-z0-9_.-]; the error carries raw unchanged, and on success
\* as_str() is raw.
NewAcceptsExactlyValidNames ==
    npc # "given" =>
        /\ (nresult.tag = "Ok") <=> ValidName(input)
        /\ nresult.tag = "Err" => nresult.name = input
        /\ nresult.tag = "Ok" => as_str(nresult) = input

\* C17's case: a scoped name with both halves non-empty was accepted.
ScopedNameAccepted ==
    /\ npc = "new"
    /\ nresult.tag = "Ok"
    /\ \E k \in 3..(Len(input) - 1) : ScopedNameAt(input, k)

\* C18: for every scoped name `@S/N` that PackageName::new accepts, scoped()
\* returns, without panicking, a value whose scope() is S and whose name() is N;
\* for every unscoped name accepted, scoped() is none and is_scoped() is false.
ScopedGivesScopeAndName ==
    /\ nanswer.op = "scoped" =>
          /\ nanswer.scoped.tag # "panic"
          /\ \A k \in 2..Len(input) :
                ScopedNameAt(input, k) =>
                   /\ nanswer.scoped.tag = "Some"
                   /\ nanswer.scoped.scope = SubSeq(input, 2, k - 1)
                   /\ nanswer.scoped.name = SubSeq(input, k + 1, Len(input))
          /\ input[1] # "@" => nanswer.scoped.tag = "None"
    /\ nanswer.op = "is_scoped" => (nanswer.is_scoped <=> input[1] = "@")

====
